---- MODULE Spec2Model ----
(***************************************************************************)
(* A model of src/src/mastra/tools/beachWeatherTool.ts: the beach table,   *)
(* getBeachWeather (resolve, API-key check, fetch, status check, result),  *)
(* getSafetyAssessment, getRecommendations and getUVWarning.               *)
(*                                                                         *)
(* JavaScript values are modelled as follows.                              *)
(*   - a string is a TLA+ string (a sequence of characters);               *)
(*   - a value of type `T | undefined` is a set: {} is undefined, {v} is v;*)
(*   - temperatures and wind speeds are fixed-point numbers in tenths of   *)
(*     a unit (59.6 F is 596), so that fractions of a degree exist and     *)
(*     Math.round is not the identity; visibility is in whole metres,      *)
(*     cloud cover and humidity in whole percent;                          *)
(*   - an advisory is its text without the leading pictograph.             *)
(***************************************************************************)
EXTENDS Integers, Sequences, FiniteSets, TLC

VARIABLES pc, beachName, apiKey, beach, response, weatherData, hour, result, error, prev

vars == <<pc, beachName, apiKey, beach, response, weatherData, hour, result, error, prev>>

---------------------------------------------------------------------------
(* JavaScript values *)

\* `undefined`, for a value of type T | undefined.
Undefined == {}

\* A defined value of type T | undefined.
Some(v) == {v}

\* n units as a fixed-point number in tenths.
T(n) == n * 10

\* x > n, x < n on number | undefined: a comparison with undefined is false.
gt(x, n) == \E v \in x : v > n
lt(x, n) == \E v \in x : v < n

\* JavaScript truthiness of number | undefined: undefined and 0 are falsy.
truthy(x) == \E v \in x : v # 0

\* Math.round of a fixed-point number in tenths: the nearest integer, halves up.
MathRound(x) == {(v + 5) \div 10 : v \in x}

---------------------------------------------------------------------------
(* String.prototype.toLowerCase, trim, includes; Array.prototype.join *)

UpperLetters == "ABCDEFGHIJKLMNOPQRSTUVWXYZ"
LowerLetters == "abcdefghijklmnopqrstuvwxyz"

charAt(s, i) == SubSeq(s, i, i)

\* The lower-case letter of each upper-case letter.
lowerOf ==
    [c \in {charAt(UpperLetters, i) : i \in 1..Len(UpperLetters)} |->
        charAt(LowerLetters, CHOOSE i \in 1..Len(UpperLetters) : charAt(UpperLetters, i) = c)]

toLowerChar(c) == IF c \in DOMAIN lowerOf THEN lowerOf[c] ELSE c

RECURSIVE toLowerCaseFrom(_, _)
toLowerCaseFrom(s, i) ==
    IF i > Len(s) THEN "" ELSE toLowerChar(charAt(s, i)) \o toLowerCaseFrom(s, i + 1)

toLowerCaseIdentity(s) == s
toLowerCase(s) == toLowerCaseFrom(s, 1)

isWhiteSpace(c) == c \in {" ", "\t", "\n", "\r"}

RECURSIVE trimStart(_)
trimStart(s) ==
    IF Len(s) > 0 /\ isWhiteSpace(charAt(s, 1)) THEN trimStart(SubSeq(s, 2, Len(s))) ELSE s

RECURSIVE trimEnd(_)
trimEnd(s) ==
    IF Len(s) > 0 /\ isWhiteSpace(charAt(s, Len(s))) THEN trimEnd(SubSeq(s, 1, Len(s) - 1)) ELSE s

trim(s) == trimEnd(trimStart(s))

includes(s, sub) == \E i \in 0..(Len(s) - Len(sub)) : SubSeq(s, i + 1, i + Len(sub)) = sub

RECURSIVE join(_, _)
join(seq, sep) ==
    IF Len(seq) = 0 THEN ""
    ELSE IF Len(seq) = 1 THEN seq[1]
    ELSE seq[1] \o sep \o join(Tail(seq), sep)

---------------------------------------------------------------------------
(* The beach table (beachCoordinates) and property lookup on it *)

\* Object.keys(beachCoordinates): the own keys, in insertion order.
beachKeys ==
    << "coney island", "brighton beach", "manhattan beach", "rockaway beach",
       "orchard beach", "south beach", "midland beach", "cedar grove beach",
       "wolfes pond beach" >>

\* The table's own properties. Coordinates are in 1/10000 of a degree.
beachCoordinates ==
    ("coney island" :> [lat |-> Some(405755), lon |-> Some(-739707), name |-> Some("Coney Island Beach")])
 @@ ("brighton beach" :> [lat |-> Some(405776), lon |-> Some(-739614), name |-> Some("Brighton Beach")])
 @@ ("manhattan beach" :> [lat |-> Some(405888), lon |-> Some(-739378), name |-> Some("Manhattan Beach")])
 @@ ("rockaway beach" :> [lat |-> Some(405892), lon |-> Some(-738131), name |-> Some("Rockaway Beach")])
 @@ ("orchard beach" :> [lat |-> Some(408670), lon |-> Some(-737854), name |-> Some("Orchard Beach")])
 @@ ("south beach" :> [lat |-> Some(405886), lon |-> Some(-740776), name |-> Some("South Beach")])
 @@ ("midland beach" :> [lat |-> Some(405653), lon |-> Some(-740845), name |-> Some("Midland Beach")])
 @@ ("cedar grove beach" :> [lat |-> Some(405434), lon |-> Some(-741045), name |-> Some("Cedar Grove Beach")])
 @@ ("wolfes pond beach" :> [lat |-> Some(405234), lon |-> Some(-741987), name |-> Some("Wolfe's Pond Beach")])

\* beachCoordinates is a plain object literal, so it inherits the properties of
\* Object.prototype. Each is an object or a function (truthy) with no lat and
\* no lon; a function's name is its own name, Object.prototype has none.
ObjectPrototype ==
    ("constructor" :> [lat |-> Undefined, lon |-> Undefined, name |-> Some("Object")])
 @@ ("__proto__" :> [lat |-> Undefined, lon |-> Undefined, name |-> Undefined])
 @@ ("toString" :> [lat |-> Undefined, lon |-> Undefined, name |-> Some("toString")])
 @@ ("valueOf" :> [lat |-> Undefined, lon |-> Undefined, name |-> Some("valueOf")])
 @@ ("hasOwnProperty" :> [lat |-> Undefined, lon |-> Undefined, name |-> Some("hasOwnProperty")])

\* beachCoordinates[key]: an own property, else an inherited one, else undefined.
getProperty(key) ==
    IF key \in DOMAIN beachCoordinates THEN Some(beachCoordinates[key])
    ELSE IF key \in DOMAIN ObjectPrototype THEN Some(ObjectPrototype[key])
    ELSE Undefined

\* beachName.toLowerCase().trim()
normalizedName(name) == trim(toLowerCase(name))

---------------------------------------------------------------------------
(* getSafetyAssessment *)

DANGEROUS == "DANGEROUS - DO NOT SWIM"
POOR == "POOR - Swimming not recommended"
CAUTION == "CAUTION - Be careful, check with lifeguards"
GOOD == "GOOD - Safe for swimming"

\* weatherData.weather[0].main.toLowerCase(), the text being there.
conditionsOf(wd) == toLowerCase(CHOOSE text \in wd.weather[1].main : TRUE)

getSafetyAssessmentCautionFirst(wd) ==
    LET temp == wd.main.temp
        windSpeed == wd.wind.speed
        conditions == conditionsOf(wd)
        visibility == wd.visibility
    IN  IF includes(conditions, "thunderstorm") \/ includes(conditions, "storm")
        THEN DANGEROUS
        ELSE IF gt(windSpeed, T(10)) \/ lt(temp, T(70)) \/ includes(conditions, "drizzle")
                \/ gt(wd.clouds.all, 80)
        THEN CAUTION
        ELSE IF gt(windSpeed, T(15)) \/ lt(temp, T(60)) \/ includes(conditions, "rain")
                \/ lt(visibility, 1000)
        THEN POOR
        ELSE GOOD
\* A variant that decides on the rounded display values.
getSafetyAssessmentRounded(wd) ==
    LET temp == { T(v) : v \in MathRound(wd.main.temp) }
        windSpeed == { T(v) : v \in MathRound(wd.wind.speed) }
        conditions == conditionsOf(wd)
        visibility == wd.visibility
    IN  IF includes(conditions, "thunderstorm") \/ includes(conditions, "storm")
        THEN DANGEROUS
        ELSE IF gt(windSpeed, T(15)) \/ lt(temp, T(60)) \/ includes(conditions, "rain")
                \/ lt(visibility, 1000)
        THEN POOR
        ELSE IF gt(windSpeed, T(10)) \/ lt(temp, T(70)) \/ includes(conditions, "drizzle")
                \/ gt(wd.clouds.all, 80)
        THEN CAUTION
        ELSE GOOD
\* A variant whose POOR rule does not read the visibility.
getSafetyAssessmentNoVisibility(wd) ==
    LET temp == wd.main.temp
        windSpeed == wd.wind.speed
        conditions == conditionsOf(wd)
    IN  IF includes(conditions, "thunderstorm") \/ includes(conditions, "storm")
        THEN DANGEROUS
        ELSE IF gt(windSpeed, T(15)) \/ lt(temp, T(60)) \/ includes(conditions, "rain")
        THEN POOR
        ELSE IF gt(windSpeed, T(10)) \/ lt(temp, T(70)) \/ includes(conditions, "drizzle")
                \/ gt(wd.clouds.all, 80)
        THEN CAUTION
        ELSE GOOD
getSafetyAssessment(wd) ==
    LET temp == wd.main.temp
        windSpeed == wd.wind.speed
        conditions == conditionsOf(wd)
        visibility == wd.visibility
    IN  IF includes(conditions, "thunderstorm") \/ includes(conditions, "storm")
        THEN DANGEROUS
        ELSE IF gt(windSpeed, T(15)) \/ lt(temp, T(60)) \/ includes(conditions, "rain")
                \/ lt(visibility, 1000)
        THEN POOR
        ELSE IF gt(windSpeed, T(10)) \/ lt(temp, T(70)) \/ includes(conditions, "drizzle")
                \/ gt(wd.clouds.all, 80)
        THEN CAUTION
        ELSE GOOD

---------------------------------------------------------------------------
(* getRecommendations *)

Lifeguard == "Swim only when lifeguards are on duty (10 AM - 6 PM during beach season)"
ExitWater == "DANGER: Exit water immediately - lightning and severe weather risk"
Rainy == "Rainy conditions - poor visibility and potential water quality issues"
SevereGust == "Very strong wind gusts - dangerous wave conditions likely"
RipCurrent == "High winds create dangerous rip currents - extreme caution advised"
ModerateWind == "Moderate winds may create strong currents - stay alert"
Hypothermia == "Cold air temperature - water will be very cold, hypothermia risk"
CoolWater == "Cool conditions - water may feel cold, consider wetsuit"
HeatSafety == "Very hot conditions - frequent water breaks and shade essential"
Sunscreen == "Hot day - apply sunscreen frequently, stay hydrated"
PoorVisibility == "Poor visibility - difficulty seeing hazards in water"
HeatExhaustion == "High humidity - heat exhaustion risk, take frequent breaks"
Excellent == "Excellent beach conditions - perfect for swimming and beach activities"

\* if (c) recommendations.push(s)
push(c, s) == IF c THEN <<s>> ELSE <<>>

\* Weather-specific warnings.
stormAdvice(conditions) == push(includes(conditions, "thunderstorm"), ExitWater)
rainAdvice(conditions) == push(includes(conditions, "rain"), Rainy)

\* Wind conditions: if / else if / else if.
windAdviceNoElse(windSpeed, windGust) ==
    push(truthy(windGust) /\ gt(windGust, T(20)), SevereGust)
    \o push(gt(windSpeed, T(15)), RipCurrent)
    \o push(gt(windSpeed, T(10)), ModerateWind)
windAdvice(windSpeed, windGust) ==
    IF truthy(windGust) /\ gt(windGust, T(20)) THEN <<SevereGust>>
    ELSE IF gt(windSpeed, T(15)) THEN <<RipCurrent>>
    ELSE IF gt(windSpeed, T(10)) THEN <<ModerateWind>>
    ELSE <<>>

\* Temperature guidance: if / else if, twice.
tempAdviceNoElse(temp) ==
    push(lt(temp, T(65)), Hypothermia) \o push(lt(temp, T(75)), CoolWater)
tempAdvice(temp) ==
    IF lt(temp, T(65)) THEN <<Hypothermia>>
    ELSE IF lt(temp, T(75)) THEN <<CoolWater>>
    ELSE <<>>

heatAdviceNoElse(feelsLike) ==
    push(gt(feelsLike, T(90)), HeatSafety) \o push(gt(feelsLike, T(85)), Sunscreen)
heatAdvice(feelsLike) ==
    IF gt(feelsLike, T(90)) THEN <<HeatSafety>>
    ELSE IF gt(feelsLike, T(85)) THEN <<Sunscreen>>
    ELSE <<>>

\* Visibility and other conditions.
visibilityAdvice(visibility) == push(lt(visibility, 1000), PoorVisibility)
humidityAdvice(humidity, temp) == push(gt(humidity, 80) /\ gt(temp, T(80)), HeatExhaustion)

\* General beach safety.
excellentAdvice(conditions, temp, windSpeed) ==
    push(includes(conditions, "clear") /\ gt(temp, T(75)) /\ lt(windSpeed, T(10)), Excellent)

getRecommendationsVisibilityFirst(wd) ==
    LET temp == wd.main.temp
        windSpeed == wd.wind.speed
        conditions == conditionsOf(wd)
    IN  <<Lifeguard>>
        \o stormAdvice(conditions)
        \o rainAdvice(conditions)
        \o visibilityAdvice(wd.visibility)
        \o windAdvice(windSpeed, wd.wind.gust)
        \o tempAdvice(temp)
        \o heatAdvice(wd.main.feels_like)
        \o humidityAdvice(wd.main.humidity, temp)
        \o excellentAdvice(conditions, temp, windSpeed)
getRecommendationsShared(wd) ==
    LET temp == wd.main.temp
        windSpeed == wd.wind.speed
        conditions == conditionsOf(wd)
        recommendations == IF prev = {} THEN <<>>
                           ELSE (CHOOSE p \in prev : TRUE).safety.recommendations
    IN  recommendations
        \o <<Lifeguard>>
        \o stormAdvice(conditions)
        \o rainAdvice(conditions)
        \o windAdvice(windSpeed, wd.wind.gust)
        \o tempAdvice(temp)
        \o heatAdvice(wd.main.feels_like)
        \o visibilityAdvice(wd.visibility)
        \o humidityAdvice(wd.main.humidity, temp)
        \o excellentAdvice(conditions, temp, windSpeed)
getRecommendations(wd) ==
    LET temp == wd.main.temp
        feelsLike == wd.main.feels_like
        windSpeed == wd.wind.speed
        windGust == wd.wind.gust
        conditions == conditionsOf(wd)
        humidity == wd.main.humidity
        visibility == wd.visibility
    IN  <<Lifeguard>>
        \o stormAdvice(conditions)
        \o rainAdvice(conditions)
        \o windAdvice(windSpeed, windGust)
        \o tempAdvice(temp)
        \o heatAdvice(feelsLike)
        \o visibilityAdvice(visibility)
        \o humidityAdvice(humidity, temp)
        \o excellentAdvice(conditions, temp, windSpeed)

---------------------------------------------------------------------------
(* getUVWarning: `now` is the clock's local hour, new Date().getHours() *)

HighUV == "High UV exposure risk - use SPF 30+ sunscreen and reapply every 2 hours"
ModerateUV == "Moderate UV exposure - sunscreen recommended"

getUVWarningLateStart(wd, now) ==
    IF now > 10 /\ now <= 16 /\ lt(wd.clouds.all, 30) /\ gt(wd.main.temp, T(70))
    THEN Some(HighUV)
    ELSE IF now >= 9 /\ now <= 17 /\ lt(wd.clouds.all, 70) THEN Some(ModerateUV)
    ELSE Undefined
getUVWarning(wd, now) ==
    IF now >= 10 /\ now <= 16 /\ lt(wd.clouds.all, 30) /\ gt(wd.main.temp, T(70))
    THEN Some(HighUV)
    ELSE IF now >= 9 /\ now <= 17 /\ lt(wd.clouds.all, 70) THEN Some(ModerateUV)
    ELSE Undefined

---------------------------------------------------------------------------
(* Inputs: beach names, the environment, provider responses *)

\* The largest number of blanks put before and after a beach name.
MaxPad == 1

RECURSIVE blanks(_)
blanks(n) == IF n = 0 THEN "" ELSE " " \o blanks(n - 1)

\* The table's keys, the same in other letter case, and names that are no key:
\* unknown, partial, with an inner blank doubled, a display name, with the
\* apostrophe, empty, and names of properties of Object.prototype.
BaseNames ==
    { beachKeys[i] : i \in 1..Len(beachKeys) }
    \cup { "Coney Island", "Brighton Beach", "Manhattan Beach", "Rockaway Beach",
           "Orchard Beach", "South Beach", "Midland Beach", "Cedar Grove Beach",
           "Wolfes Pond Beach", "CONEY ISLAND", "rOCKAWAY bEACH" }
    \cup { "Atlantis", "coney", "coney  island", "Coney Island Beach",
           "wolfe's pond beach", "", "Constructor", "__proto__", "toString" }

BeachNames ==
    { blanks(l) \o b \o blanks(r) : l \in 0..MaxPad, r \in 0..MaxPad, b \in BaseNames }

\* process.env.OPENWEATHER_API_KEY: unset, empty, or set.
ApiKeys == { Undefined, Some(""), Some("0123456789abcdef") }

\* new Date().getHours()
Hours == 0..23

\* The provider's payload (OpenWeatherResponse), in imperial units.
Payload(cond, temp, feels, hum, speed, gust, vis, cloud) ==
    [ weather |-> << [main |-> Some(cond), description |-> Some("as reported"), id |-> 0] >>,
      main |-> [temp |-> Some(temp), feels_like |-> Some(feels),
                humidity |-> Some(hum), pressure |-> Some(1013)],
      visibility |-> Some(vis),
      wind |-> [speed |-> Some(speed), deg |-> Some(180), gust |-> gust],
      clouds |-> [all |-> Some(cloud)] ]

Payloads(Conds, Temps, Feels, Hums, Speeds, Gusts, Vis, Cloud) ==
    { Payload(c, t, f, h, s, g, v, cl) :
        c \in Conds, t \in Temps, f \in Feels, h \in Hums, s \in Speeds,
        g \in Gusts, v \in Vis, cl \in Cloud }

\* The fields of the payload that getBeachWeather reads and cannot do without
\* (wind.gust is optional).
RequiredFields ==
    { "temp", "feels_like", "humidity", "speed", "deg", "main", "visibility",
      "pressure", "all" }

\* The payload p with the required field f left out by the provider.
lacking(p, f) ==
    CASE f = "temp" -> [p EXCEPT !.main.temp = Undefined]
      [] f = "feels_like" -> [p EXCEPT !.main.feels_like = Undefined]
      [] f = "humidity" -> [p EXCEPT !.main.humidity = Undefined]
      [] f = "pressure" -> [p EXCEPT !.main.pressure = Undefined]
      [] f = "speed" -> [p EXCEPT !.wind.speed = Undefined]
      [] f = "deg" -> [p EXCEPT !.wind.deg = Undefined]
      [] f = "main" -> [p EXCEPT !.weather[1].main = Undefined]
      [] f = "visibility" -> [p EXCEPT !.visibility = Undefined]
      [] f = "all" -> [p EXCEPT !.clouds.all = Undefined]

\* A fetch Response: its ok flag, its status, and what response.json() yields.
OkResponses(P) ==
    { [ok |-> TRUE, status |-> 200, statusText |-> "OK", body |-> Some(b)] : b \in P }
ErrorResponses ==
    { [ok |-> FALSE, status |-> st[1], statusText |-> st[2], body |-> Undefined] :
        st \in { <<401, "Unauthorized">>, <<404, "Not Found">>,
                 <<500, "Internal Server Error">> } }

\* Values on both sides of every threshold the rules compare with.
AllConditions ==
    { "Thunderstorm", "Rain", "Drizzle", "Clear", "Clouds", "Mist", "Sandstorm",
      "Rain and drizzle", "Thunderstorm with rain, clearing" }
AllTemps == { 596, T(60), 649, T(65), 699, T(70), 749, T(75), 755, T(80), 805 }
AllFeels == { T(85), 855, T(90), 905 }
AllSpeeds == { 95, T(10), 105, T(15), 155 }
AllGusts == { Undefined, Some(0), Some(T(20)), Some(205) }
AllVisibilities == { 999, 1000, 10000 }
AllClouds == { 29, 30, 69, 70, 80, 81 }
AllHumidities == { 80, 81 }

---------------------------------------------------------------------------
(* getBeachWeather, one step per action *)

\* catch (error) { throw new Error(`Failed to fetch beach weather data: ...`) }
rethrow(message) == Some("Failed to fetch beach weather data: " \o message)

notFoundMessage(name) ==
    "Beach \"" \o name \o "\" not found. Available beaches: " \o join(beachKeys, ", ")

\* The state in which getBeachWeather(name) starts.
Start(name, key, now) ==
    /\ pc = "resolve"
    /\ beachName = name
    /\ apiKey = key
    /\ hour = now
    /\ beach = Undefined
    /\ response = Undefined
    /\ weatherData = Undefined
    /\ result = Undefined
    /\ error = Undefined
    /\ prev = Undefined

\* const beach = beachCoordinates[normalizedName]; if (!beach) throw ...
Resolve ==
    /\ pc = "resolve"
    /\ beach' = getProperty(normalizedName(beachName))
    /\ IF beach' = Undefined
       THEN pc' = "failed" /\ error' = rethrow(notFoundMessage(beachName))
       ELSE pc' = "apiKey" /\ error' = error
    /\ UNCHANGED <<beachName, apiKey, response, weatherData, hour, result, prev>>

\* if (!apiKey) throw ...: undefined and the empty string are falsy.
CheckApiKey ==
    /\ pc = "apiKey"
    /\ IF apiKey = Undefined \/ apiKey = Some("")
       THEN pc' = "failed"
            /\ error' = rethrow("OpenWeather API key not configured in environment variables")
       ELSE pc' = "fetch" /\ error' = error
    /\ UNCHANGED <<beachName, apiKey, beach, response, weatherData, hour, result, prev>>

\* const response = await fetch(weatherUrl): a response from R.
Fetch(R) ==
    /\ pc = "fetch"
    /\ \E r \in R : response' = Some(r)
    /\ pc' = "status"
    /\ UNCHANGED <<beachName, apiKey, beach, weatherData, hour, result, error, prev>>

\* await fetch(weatherUrl) rejects (the network is down).
FetchRejects ==
    /\ pc = "fetch"
    /\ pc' = "failed"
    /\ error' = rethrow("fetch failed")
    /\ UNCHANGED <<beachName, apiKey, beach, response, weatherData, hour, result, prev>>

\* if (!response.ok) throw ...
CheckStatus ==
    /\ pc = "status"
    /\ LET r == CHOOSE r \in response : TRUE
       IN  IF ~r.ok
           THEN pc' = "failed"
                /\ error' = rethrow("OpenWeather API error: " \o ToString(r.status)
                                  \o " " \o r.statusText)
           ELSE pc' = "classify" /\ error' = error
    /\ UNCHANGED <<beachName, apiKey, beach, response, weatherData, hour, result, prev>>

\* visibility / 1609.34 * 10, rounded: tenths of a mile.
milesTenths(x) == {(2000 * v + 160934) \div 321868 : v \in x}

\* const result = {...} for beach entry b, payload wd and clock hour now.
\* Math.round of a missing number is NaN, which the display record holds as
\* no number; a comparison with a missing number is false.
resultOf(b, wd, now) ==
    [ beach |-> b.name,
      coordinates |-> [latitude |-> b.lat, longitude |-> b.lon],
      weather |->
        [ temperature |-> MathRound(wd.main.temp),
          feelsLike |-> MathRound(wd.main.feels_like),
          humidity |-> wd.main.humidity,
          windSpeed |-> MathRound(wd.wind.speed),
          windDirection |-> wd.wind.deg,
          windGust |-> IF truthy(wd.wind.gust) THEN MathRound(wd.wind.gust) ELSE Undefined,
          conditions |-> wd.weather[1].main,
          description |-> wd.weather[1].description,
          visibility |-> milesTenths(wd.visibility),
          pressure |-> wd.main.pressure,
          cloudCover |-> wd.clouds.all ],
      safety |->
        [ swimmingConditions |-> getSafetyAssessment(wd),
          recommendations |-> getRecommendations(wd),
          uvWarning |-> getUVWarning(wd, now) ],
      timestamp |-> now ]

\* const weatherData = await response.json(); const result = {...}; return result
\* Only a missing condition text throws, in getSafetyAssessment: undefined has
\* no toLowerCase.
BuildResult ==
    /\ pc = "classify"
    /\ LET r == CHOOSE r \in response : TRUE
           b == CHOOSE b \in beach : TRUE
           wd == CHOOSE wd \in r.body : TRUE
       IN  /\ weatherData' = Some(wd)
           /\ IF wd.weather[1].main = Undefined
              THEN /\ pc' = "failed"
                   /\ error' = rethrow("Cannot read properties of undefined (reading 'toLowerCase')")
                   /\ result' = result
              ELSE /\ pc' = "done"
                   /\ error' = error
                   /\ result' = Some(resultOf(b, wd, hour))
    /\ UNCHANGED <<beachName, apiKey, beach, response, hour, prev>>

\* The tool is executed again, in the same hour or the next. prev records the
\* call that returned last: what it classified, when, and its verdicts.
Invoke(Names) ==
    /\ pc \in {"done", "failed"}
    /\ pc' = "resolve"
    /\ beachName' \in Names
    /\ hour' \in {hour, (hour + 1) % 24}
    /\ prev' = IF result = Undefined THEN prev
               ELSE Some([ weatherData |-> weatherData, hour |-> hour,
                           safety |-> (CHOOSE x \in result : TRUE).safety ])
    /\ beach' = Undefined
    /\ response' = Undefined
    /\ weatherData' = Undefined
    /\ result' = Undefined
    /\ error' = Undefined
    /\ UNCHANGED apiKey

---------------------------------------------------------------------------
(* Specifications *)

\* One request, for any name, environment and provider response.
RequestPayloads ==
    Payloads({"Thunderstorm", "Clear"}, {596, 755}, {T(80)}, {50},
             {95}, {Undefined, Some(0), Some(205)}, {10000}, {10})

\* Payloads in which the provider left a required field out.
MalformedPayloads ==
    { lacking(p, f) :
        p \in Payloads({"Clear", "Rain"}, {755}, {T(80)}, {50}, {95}, {Undefined}, {10000}, {10}),
        f \in RequiredFields }

Init == \E n \in BeachNames, k \in ApiKeys, h \in Hours : Start(n, k, h)

Next ==
    \/ Resolve
    \/ CheckApiKey
    \/ Fetch(OkResponses(RequestPayloads \cup MalformedPayloads) \cup ErrorResponses)
    \/ FetchRejects
    \/ CheckStatus
    \/ BuildResult

Spec == Init /\ [][Next]_vars

\* The state in which the result is built from payload p at hour h.
Classifying(p, h) ==
    /\ pc = "classify"
    /\ beachName = "coney island"
    /\ apiKey = Some("0123456789abcdef")
    /\ hour = h
    /\ beach = getProperty("coney island")
    /\ response \in { Some(r) : r \in OkResponses({p}) }
    /\ weatherData = Undefined
    /\ result = Undefined
    /\ error = Undefined
    /\ prev = Undefined

\* getSafetyAssessment on every combination of the fields it reads.
AssessPayloads ==
    Payloads(AllConditions, AllTemps, {T(80)}, {50}, AllSpeeds, {Undefined},
             AllVisibilities, AllClouds)

InitAssess == \E p \in AssessPayloads : Classifying(p, 12)

SpecAssess == InitAssess /\ [][BuildResult]_vars

\* getRecommendations on every combination of the fields it reads.
RecommendPayloads ==
    Payloads(AllConditions, AllTemps, AllFeels, AllHumidities, AllSpeeds, AllGusts,
             {999, 1000}, {50})

InitRecommend == \E p \in RecommendPayloads : Classifying(p, 12)

SpecRecommend == InitRecommend /\ [][BuildResult]_vars

\* getUVWarning at every hour, on every combination of the fields it reads.
UVPayloads ==
    Payloads({"Clear"}, AllTemps \cup {T(71)}, {T(80)}, {50}, {95}, {Undefined}, {10000}, AllClouds)

InitUV == \E p \in UVPayloads, h \in Hours : Classifying(p, h)

SpecUV == InitUV /\ [][BuildResult]_vars

\* A thunderstorm and, to compare, rain, in every wind, gust, temperature,
\* visibility and cloud cover.
StormPayloads ==
    Payloads({"Thunderstorm", "Rain"}, AllTemps, {905}, {81}, AllSpeeds, AllGusts,
             AllVisibilities, AllClouds)

InitStorm == \E p \in StormPayloads : Classifying(p, 12)

SpecStorm == InitStorm /\ [][BuildResult]_vars

\* Temperatures, feels-like values, winds and gusts within half a unit of a
\* threshold, so that the rounded value lies on the threshold or across it.
RoundPayloads ==
    Payloads({"Clear", "Clouds"},
             {596, 604, 646, 654, 696, 704, 746, 754, 796, 804},
             {846, 854, 896, 904}, {81}, {96, 104, 146, 154},
             {Undefined, Some(196), Some(204)}, {10000}, {10})

InitRound == \E p \in RoundPayloads : Classifying(p, 12)

SpecRound == InitRound /\ [][BuildResult]_vars

\* The verdict and the recommendations of one observation, on every
\* combination of the fields the two functions share.
ConsistentPayloads ==
    Payloads(AllConditions, AllTemps, {T(85), 905}, {50}, AllSpeeds,
             {Undefined, Some(205)}, AllVisibilities, {80, 81})

InitConsistent == \E p \in ConsistentPayloads : Classifying(p, 12)

SpecConsistent == InitConsistent /\ [][BuildResult]_vars

\* The tool executed again and again, the clock advancing between calls.
AgainPayloads ==
    Payloads({"Thunderstorm", "Clear"}, {699, 755}, {905}, {81}, {95, 155},
             {Undefined}, {10000}, {10})

InitAgain == \E h \in Hours : Start("coney island", Some("0123456789abcdef"), h)

NextAgain ==
    \/ Resolve
    \/ CheckApiKey
    \/ Fetch(OkResponses(AgainPayloads))
    \/ CheckStatus
    \/ BuildResult
    \/ Invoke({"coney island", "South Beach"})

SpecAgain == InitAgain /\ [][NextAgain]_vars

---------------------------------------------------------------------------
(* What the properties below speak of *)

\* The request has returned a result.
Done == pc = "done"

\* The payload classified, and the safety record returned for it.
observation == CHOOSE wd \in weatherData : TRUE
safety == (CHOOSE r \in result : TRUE).safety
verdict == safety.swimmingConditions
recommendations == safety.recommendations

\* The number a defined field holds.
num(x) == CHOOSE v \in x : TRUE

airTemperature == num(observation.main.temp)
feelsLikeTemperature == num(observation.main.feels_like)
sustainedWind == num(observation.wind.speed)
visibilityMetres == num(observation.visibility)
cloudCoverPct == num(observation.clouds.all)
conditionText == CHOOSE text \in observation.weather[1].main : TRUE

\* A gust value is present and above 20 mph.
gustAbove20 == observation.wind.gust # Undefined /\ num(observation.wind.gust) > T(20)

\* The condition category of a provider text: the first cue found, in the
\* order thunderstorm, rain, drizzle, clouds, clear; letter case is ignored.
conditionCategory(text) ==
    LET t == toLowerCase(text)
    IN  IF includes(t, "thunderstorm") THEN "thunderstorm"
        ELSE IF includes(t, "rain") THEN "rain"
        ELSE IF includes(t, "drizzle") THEN "drizzle"
        ELSE IF includes(t, "clouds") THEN "clouds"
        ELSE IF includes(t, "clear") THEN "clear"
        ELSE "other"

\* The severity tiers, from safest (0) to most severe (3).
tierOf(v) ==
    CASE v = GOOD -> 0 [] v = CAUTION -> 1 [] v = POOR -> 2 [] v = DANGEROUS -> 3

greatest(S) == CHOOSE m \in S : \A x \in S : x <= m

poorRuleMatches ==
    \/ sustainedWind > T(15)
    \/ airTemperature < T(60)
    \/ conditionCategory(conditionText) = "rain"
    \/ visibilityMetres < 1000

cautionRuleMatches ==
    \/ sustainedWind > T(10)
    \/ airTemperature < T(70)
    \/ conditionCategory(conditionText) = "drizzle"
    \/ cloudCoverPct > 80

\* The tiers whose rule matches; GOOD (0) is the default.
tiersMatching(dangerous) ==
    {0} \cup {t \in {1} : cautionRuleMatches}
        \cup {t \in {2} : poorRuleMatches}
        \cup {t \in {3} : dangerous}

\* How often one of the advisories S stands in the recommendation list.
occurrences(S) == Cardinality({i \in 1..Len(recommendations) : recommendations[i] \in S})

listed(a) == \E i \in 1..Len(recommendations) : recommendations[i] = a

---------------------------------------------------------------------------
(* C1 *)

\* C1, as stated: the verdict is the most severe tier among the rules that
\* match, where DANGEROUS matches only when the condition category is
\* thunderstorm, and GOOD results exactly when no rule matches.
C1_VerdictMostSevere_ThunderstormOnly ==
    Done => tierOf(verdict)
              = greatest(tiersMatching(conditionCategory(conditionText) = "thunderstorm"))

\* C1, amended: the verdict is the most severe tier among the rules that
\* match, where DANGEROUS matches when the condition text contains "storm" in
\* any letter case (every thunderstorm does, and so does a sandstorm); the
\* POOR and CAUTION rules are as stated and GOOD results exactly when no rule
\* matches.
C1_VerdictMostSevere ==
    Done => tierOf(verdict)
              = greatest(tiersMatching(includes(toLowerCase(conditionText), "storm")))

\* A verdict of DANGEROUS where the POOR and the CAUTION rule match as well.
C1_Witness ==
    /\ Done
    /\ conditionCategory(conditionText) = "thunderstorm"
    /\ poorRuleMatches
    /\ cautionRuleMatches
    /\ verdict = DANGEROUS

---------------------------------------------------------------------------
(* C2 *)

\* C2: for the condition "Thunderstorm", in every wind, gust, temperature,
\* visibility and cloud cover, the verdict is DANGEROUS and the second
\* recommendation is the exit-the-water warning.
C2_ThunderstormExitsWater ==
    (Done /\ conditionText = "Thunderstorm")
        => /\ verdict = DANGEROUS
           /\ Len(recommendations) >= 2
           /\ recommendations[2] = ExitWater

\* A thunderstorm in a cold gale with poor visibility.
C2_Witness ==
    /\ Done
    /\ conditionText = "Thunderstorm"
    /\ sustainedWind > T(15)
    /\ airTemperature < T(60)
    /\ visibilityMetres < 1000
    /\ verdict = DANGEROUS
    /\ recommendations[2] = ExitWater

---------------------------------------------------------------------------
(* C3 *)

\* C3: the recommendation list is never empty, starts with the lifeguard
\* reminder and has between 1 and 8 entries.
C3_ListStartsWithReminder ==
    Done => /\ Len(recommendations) >= 1
            /\ Len(recommendations) <= 8
            /\ recommendations[1] = Lifeguard

\* A list of 8 entries.
C3_Witness == Done /\ Len(recommendations) = 8 /\ recommendations[1] = Lifeguard

---------------------------------------------------------------------------
(* C4 *)

\* The 13 advisories in their fixed order.
AdvisorySequence ==
    << Lifeguard, ExitWater, Rainy, SevereGust, RipCurrent, ModerateWind, Hypothermia,
       CoolWater, HeatSafety, Sunscreen, PoorVisibility, HeatExhaustion, Excellent >>

place(a) == CHOOSE i \in 1..Len(AdvisorySequence) : AdvisorySequence[i] = a

\* C4: the recommendation list is a subsequence of the 13 advisories: every
\* entry is one of them and the entries stand in strictly increasing order of
\* their places in that sequence (so none stands twice).
C4_ListIsSubsequence ==
    Done => /\ \A i \in 1..Len(recommendations) :
                 \E k \in 1..Len(AdvisorySequence) : AdvisorySequence[k] = recommendations[i]
            /\ \A i, j \in 1..Len(recommendations) :
                 i < j => place(recommendations[i]) < place(recommendations[j])

\* A list with a wind, a temperature and the visibility advisory.
C4_Witness ==
    /\ Done
    /\ listed(SevereGust)
    /\ listed(Hypothermia)
    /\ listed(PoorVisibility)
    /\ listed(Rainy)

---------------------------------------------------------------------------
(* C5 *)

\* C5: with a gust present and above 20 mph the severe-gust warning is the
\* only wind entry, in every sustained wind; the rip-current warning stands
\* exactly when the gust rule does not fire and the sustained wind is above
\* 15 mph, the moderate-wind caution exactly when neither fires and the
\* sustained wind is above 10 mph.
C5_GustPrecedence ==
    Done => /\ gustAbove20 => (listed(SevereGust) /\ ~listed(RipCurrent) /\ ~listed(ModerateWind))
            /\ listed(SevereGust) <=> gustAbove20
            /\ listed(RipCurrent) <=> (~gustAbove20 /\ sustainedWind > T(15))
            /\ listed(ModerateWind)
                 <=> (~gustAbove20 /\ ~(sustainedWind > T(15)) /\ sustainedWind > T(10))

\* A gust above 20 mph in a sustained wind above 15 mph.
C5_Witness ==
    /\ Done
    /\ gustAbove20
    /\ sustainedWind > T(15)
    /\ listed(SevereGust)

---------------------------------------------------------------------------
(* C6 *)

\* C6: at most one entry of each exclusive group stands in the list, and in
\* a group the first rule that matches wins.
C6_ExclusiveGroups ==
    Done => /\ occurrences({SevereGust, RipCurrent, ModerateWind}) <= 1
            /\ occurrences({Hypothermia, CoolWater}) <= 1
            /\ occurrences({HeatSafety, Sunscreen}) <= 1
            /\ gustAbove20 => listed(SevereGust)
            /\ airTemperature < T(65) => listed(Hypothermia)
            /\ (airTemperature >= T(65) /\ airTemperature < T(75)) => listed(CoolWater)
            /\ feelsLikeTemperature > T(90) => listed(HeatSafety)
            /\ (feelsLikeTemperature <= T(90) /\ feelsLikeTemperature > T(85))
                 => listed(Sunscreen)

\* Every group has two rules that match, and one entry.
C6_Witness ==
    /\ Done
    /\ gustAbove20 /\ sustainedWind > T(15)
    /\ airTemperature < T(65)
    /\ feelsLikeTemperature > T(90)
    /\ occurrences({SevereGust, RipCurrent, ModerateWind}) = 1
    /\ occurrences({Hypothermia, CoolWater}) = 1
    /\ occurrences({HeatSafety, Sunscreen}) = 1

---------------------------------------------------------------------------
(* C7 *)

uvWarning == safety.uvWarning

\* C7: the UV advisory is the "high" text when the hour is in [10,16], cloud
\* cover is below 30% and the temperature above 70 F; otherwise the
\* "moderate" text when the hour is in [9,17] and cloud cover below 70%;
\* otherwise absent (undefined, no empty string). Hour 10, cloud 29%, 71 F
\* gives "high"; hour 8 gives none.
C7_UVAdvisory ==
    Done => /\ uvWarning =
                 IF hour \in 10..16 /\ cloudCoverPct < 30 /\ airTemperature > T(70)
                 THEN {HighUV}
                 ELSE IF hour \in 9..17 /\ cloudCoverPct < 70 THEN {ModerateUV}
                 ELSE {}
            /\ uvWarning # {""}
            /\ (hour = 10 /\ cloudCoverPct = 29 /\ airTemperature = T(71)) => uvWarning = {HighUV}
            /\ hour = 8 => uvWarning = {}

\* The boundary case: hour 10, cloud cover 29%, 71 F.
C7_Witness ==
    /\ Done
    /\ hour = 10
    /\ cloudCoverPct = 29
    /\ airTemperature = T(71)
    /\ uvWarning = {HighUV}

---------------------------------------------------------------------------
(* C8 *)

lastCall == CHOOSE p \in prev : TRUE

---------------------------------------------------------------------------
(* C9 *)

tableKeys == { beachKeys[i] : i \in 1..Len(beachKeys) }

\* The name with its surrounding whitespace trimmed, in lower case.
trimmedLowerCase(name) == toLowerCase(trim(name))

\* Resolution has been attempted.
Resolved == pc # "resolve"

\* C9: resolution succeeds exactly when the name, trimmed and in lower case,
\* equals a key of the table, and then yields that key's entry; no other name
\* resolves.
C9_ResolvesExactlyTheKeys ==
    Resolved =>
        /\ (beach # Undefined) <=> (trimmedLowerCase(beachName) \in tableKeys)
        /\ (trimmedLowerCase(beachName) \in tableKeys)
             => beach = Some(beachCoordinates[trimmedLowerCase(beachName)])

---------------------------------------------------------------------------
(* C10 *)

\* The first place of sub in s, or 0.
indexOf(s, sub) ==
    IF includes(s, sub)
    THEN 1 + CHOOSE i \in 0..(Len(s) - Len(sub)) :
                 /\ SubSeq(s, i + 1, i + Len(sub)) = sub
                 /\ \A j \in 0..(i - 1) : SubSeq(s, j + 1, j + Len(sub)) # sub
    ELSE 0

\* What follows the first marker in s.
textAfter(s, marker) == SubSeq(s, indexOf(s, marker) + Len(marker), Len(s))

RECURSIVE split(_, _)
split(s, sep) ==
    IF indexOf(s, sep) = 0 THEN <<s>>
    ELSE <<SubSeq(s, 1, indexOf(s, sep) - 1)>>
         \o split(SubSeq(s, indexOf(s, sep) + Len(sep), Len(s)), sep)

errorMessage == CHOOSE m \in error : TRUE

\* The keys the not-found error enumerates.
keysListed == split(textAfter(errorMessage, "Available beaches: "), ", ")

\* C10: resolving a name that matches no key fails with a not-found error
\* that enumerates the keys: 9 of them, every key of the table once.
C10_NotFoundListsEveryKey ==
    (Resolved /\ trimmedLowerCase(beachName) \notin tableKeys)
        => /\ pc = "failed"
           /\ error # Undefined
           /\ includes(errorMessage, "not found. Available beaches: ")
           /\ Len(keysListed) = 9
           /\ Len(keysListed) = Cardinality(DOMAIN beachCoordinates)
           /\ \A i, j \in 1..Len(keysListed) : keysListed[i] = keysListed[j] => i = j
           /\ { keysListed[i] : i \in 1..Len(keysListed) } = DOMAIN beachCoordinates

---------------------------------------------------------------------------
(* C11 *)

\* The value the payload wd holds for the required field f.
fieldOf(wd, f) ==
    CASE f = "temp" -> wd.main.temp
      [] f = "feels_like" -> wd.main.feels_like
      [] f = "humidity" -> wd.main.humidity
      [] f = "pressure" -> wd.main.pressure
      [] f = "speed" -> wd.wind.speed
      [] f = "deg" -> wd.wind.deg
      [] f = "main" -> wd.weather[1].main
      [] f = "visibility" -> wd.visibility
      [] f = "all" -> wd.clouds.all

\* The required fields the received payload lacks.
missingFields == { f \in RequiredFields : fieldOf(observation, f) = Undefined }

\* A payload has been received and read.
Received == weatherData # Undefined

\* C11: a received payload that lacks a required field ends the request with
\* an error that names a missing field; no result, hence no verdict and no
\* recommendation list, is produced for it.
C11_MissingFieldIsRefused ==
    (Received /\ missingFields # {})
        => /\ pc = "failed"
           /\ result = Undefined
           /\ error # Undefined
           /\ \E f \in missingFields : includes(errorMessage, f)

---------------------------------------------------------------------------
(* C12 *)

\* The gust of the payload, and the gust of the display record.
payloadGust == observation.wind.gust
displayedGust == (CHOOSE r \in result : TRUE).weather.windGust

\* C12: the display record has no gust exactly when the payload has none; a
\* payload gust of 0 is displayed as the gust value 0.
C12_ZeroGustIsDisplayed ==
    Done => /\ (displayedGust = Undefined) <=> (payloadGust = Undefined)
            /\ (payloadGust = Some(0)) => (displayedGust = Some(0))

---------------------------------------------------------------------------
(* C13 *)

\* The display record, and the humidity of the payload.
displayed == (CHOOSE r \in result : TRUE).weather
relativeHumidity == num(observation.main.humidity)

\* The payload's condition text has none of the cues a verdict rule reads,
\* and visibility and cloud cover match no rule.
onlyTemperatureAndWindDecide ==
    /\ conditionCategory(conditionText) \in {"clear", "clouds", "other"}
    /\ ~includes(toLowerCase(conditionText), "storm")
    /\ visibilityMetres >= 1000
    /\ cloudCoverPct <= 80

\* C13: the verdict and the recommendations are decided by the unrounded
\* temperature, feels-like temperature, wind speed and gust, on whichever
\* side of a threshold the rounded value lies; the display record holds the
\* rounded values.
C13_ClassifiesOnRawValues ==
    Done =>
        /\ displayed.temperature = MathRound(observation.main.temp)
        /\ displayed.feelsLike = MathRound(observation.main.feels_like)
        /\ displayed.windSpeed = MathRound(observation.wind.speed)
        /\ truthy(payloadGust) => displayed.windGust = MathRound(payloadGust)
        /\ onlyTemperatureAndWindDecide =>
             verdict = IF sustainedWind > T(15) \/ airTemperature < T(60) THEN POOR
                       ELSE IF sustainedWind > T(10) \/ airTemperature < T(70) THEN CAUTION
                       ELSE GOOD
        /\ ~gustAbove20 => /\ listed(RipCurrent) <=> sustainedWind > T(15)
                           /\ listed(ModerateWind)
                                <=> (sustainedWind > T(10) /\ sustainedWind <= T(15))
        /\ listed(SevereGust) <=> gustAbove20
        /\ listed(Hypothermia) <=> airTemperature < T(65)
        /\ listed(CoolWater) <=> (airTemperature >= T(65) /\ airTemperature < T(75))
        /\ listed(HeatSafety) <=> feelsLikeTemperature > T(90)
        /\ listed(Sunscreen)
             <=> (feelsLikeTemperature > T(85) /\ feelsLikeTemperature <= T(90))
        /\ listed(HeatExhaustion) <=> (relativeHumidity > 80 /\ airTemperature > T(80))
        /\ listed(Excellent)
             <=> /\ includes(toLowerCase(conditionText), "clear")
                 /\ airTemperature > T(75)
                 /\ sustainedWind < T(10)

\* 59.6 F is displayed as 60 and gives POOR, in a wind that matches no rule.
C13_Witness ==
    /\ Done
    /\ airTemperature = 596
    /\ displayed.temperature = Some(60)
    /\ sustainedWind = 96
    /\ onlyTemperatureAndWindDecide
    /\ verdict = POOR
    /\ listed(Hypothermia)

---------------------------------------------------------------------------
(* C14 *)

\* The order of the steps of a request.
StepOrder ==
    { <<"resolve", "apiKey">>, <<"apiKey", "fetch">>, <<"fetch", "status">>,
      <<"status", "classify">>, <<"classify", "done">> }

\* The API key is configured, and the provider answered with success.
keyConfigured == apiKey # Undefined /\ apiKey # Some("")
answeredOk == response # Undefined /\ (CHOOSE r \in response : TRUE).ok

\* C14: every step of a request is the next one in the order resolve, API-key
\* check, fetch, status check, classify, result, or the failure of the step
\* at hand, which leaves an error and no result; the fetch is made only for
\* a name that matches a key of the table and with the API key configured;
\* the payload is classified only after a success response; a result is
\* returned only by the last step, every step before it having succeeded.
C14_StepsInOrder ==
    [][ /\ \/ <<pc, pc'>> \in StepOrder
           \/ pc \notin {"done", "failed"} /\ pc' = "failed"
        /\ pc' = "failed" => (error' # Undefined /\ result' = Undefined)
        /\ pc = "fetch" => (trimmedLowerCase(beachName) \in tableKeys /\ keyConfigured)
        /\ pc = "classify" => answeredOk
        /\ weatherData' # Undefined => (keyConfigured /\ answeredOk)
        /\ result' # Undefined
             => /\ pc = "classify" /\ pc' = "done"
                /\ trimmedLowerCase(beachName) \in tableKeys
                /\ keyConfigured
                /\ answeredOk
                /\ error' = Undefined
      ]_vars

---------------------------------------------------------------------------
(* C15 *)

\* The entries a GOOD verdict excludes.
HazardAdvisories ==
    { ExitWater, Rainy, RipCurrent, ModerateWind, Hypothermia, PoorVisibility }

\* C15: when the verdict is GOOD the recommendation list has no thunderstorm
\* exit warning, rain caution, rip-current warning, moderate-wind caution,
\* hypothermia-risk warning or hazard-visibility warning.
C15_GoodHasNoHazardAdvice ==
    (Done /\ verdict = GOOD) => \A a \in HazardAdvisories : ~listed(a)

\* A GOOD verdict with the severe-gust warning, the cool-water notice and
\* the heat entry in the list.
C15_Witness ==
    /\ Done
    /\ verdict = GOOD
    /\ listed(SevereGust)
    /\ listed(CoolWater)
    /\ listed(HeatSafety)
    /\ occurrences(HazardAdvisories) = 0

====
